---------------------------- MODULE Spec2Model ----------------------------
(***************************************************************************)
(* LocalProcessInfo::with_root_pid (procinfo/src/windows.rs): the process  *)
(* tree of a root pid, built from one Toolhelp snapshot and enriched per   *)
(* process through a scoped process handle.                                *)
(*                                                                         *)
(* The operating system is the environment: every OS call answers with a   *)
(* value drawn from the results its Win32 contract allows.                 *)
(***************************************************************************)
EXTENDS Integers, Sequences, FiniteSets, TLC

VARIABLES
    os_procs,     \* OS: the processes a snapshot holds (pid, ppid, szExeFile)
    racy,         \* OS: may targets exit or change while they are read?
    root,         \* with_root_pid's argument
    pc,           \* position in with_root_pid's body
    snapshot,     \* Option<Snapshot>: <<>> or <<handle>>
    first,        \* ProcIter.first
    cursor,       \* OS: how many entries the snapshot iteration has handed out
    procs,        \* the collected Vec<PROCESSENTRY32W>
    stack,        \* build_proc's activation records, innermost last
    result,       \* with_root_pid's return value: <<>> or <<node>>
    open,         \* OS: the handles currently open
    next_handle,  \* OS: the next handle to hand out
    clock,        \* OS: the system clock
    oslog,        \* history: the calls made on snapshot and process handles
    probe,        \* history: per pid, what its readers answered
    u_pc,         \* unit harness: position
    u_in,         \* unit harness: the input of the function under study
    u_out         \* unit harness: its outcome

vars == <<os_procs, racy, root, pc, snapshot, first, cursor, procs, stack,
          result, open, next_handle, clock, oslog, probe, u_pc, u_in, u_out>>

----------------------------------------------------------------------------
(* Bounds of the exploration *)

\* at most this many processes in a snapshot; pids range over 0..MaxProcs
MaxProcs == 3
\* reader failures (a target that exits or changes under the reads) are
\* explored for snapshots of at most this many processes, free of loops;
\* larger or looping snapshots are explored with OpenProcess failing or not
MaxRacyProcs == 2
\* the call stack holds this many build_proc activations before it overflows
MaxDepth == 4
\* largest byte length handed to read_process_wchar in its own harness
MaxLen == 5

----------------------------------------------------------------------------
(* Values *)

None == <<>>
Some(v) == <<v>>

\* winapi HANDLE values: a null pointer, and INVALID_HANDLE_VALUE = (HANDLE)-1
NULL == 0
INVALID_HANDLE_VALUE == -1

Limb == 2^16

Pids == 0 .. MaxProcs

\* PathBuf::new() / an empty Vec
Empty == <<>>

----------------------------------------------------------------------------
(* Wide strings and paths *)

RECURSIVE NulPosition(_, _)
\* slice.iter().position(|&c| c == 0), searching from index i; 0 when absent
NulPosition(slice, i) ==
    IF i > Len(slice) THEN 0
    ELSE IF slice[i] = 0 THEN i
    ELSE NulPosition(slice, i + 1)

wstr_to_path(slice) ==
    LET nul == NulPosition(slice, 1)
    IN  IF nul # 0 THEN SubSeq(slice, 1, nul - 1) ELSE slice

\* lossy conversion keeps the code units of well-formed text
wstr_to_string(slice) == wstr_to_path(slice)

IsSeparator(c) == c = 92 \/ c = 47

RECURSIVE StripTrailingSeparators(_)
StripTrailingSeparators(p) ==
    IF p # <<>> /\ IsSeparator(p[Len(p)])
    THEN StripTrailingSeparators(SubSeq(p, 1, Len(p) - 1))
    ELSE p

RECURSIVE LastComponentStart(_, _)
\* the index at which the last component of p begins, scanning back from i
LastComponentStart(p, i) ==
    IF i = 0 THEN 1
    ELSE IF IsSeparator(p[i]) THEN i + 1
    ELSE LastComponentStart(p, i - 1)

\* Path::file_name as an Option: the final component, none for an empty
\* path or a bare root
file_name(path) ==
    LET p == StripTrailingSeparators(path)
    IN  IF p = <<>> THEN None
        ELSE Some(SubSeq(p, LastComponentStart(p, Len(p)), Len(p)))

----------------------------------------------------------------------------
(* 64-bit arithmetic on little-endian sequences of 16-bit limbs *)

RECURSIVE MulSmall(_, _, _)
\* x * k + carry, one limb longer than x (the last limb is the carry out)
MulSmall(x, k, carry) ==
    IF x = <<>> THEN <<carry>>
    ELSE LET t == x[1] * k + carry
         IN  <<t % Limb>> \o MulSmall(Tail(x), k, t \div Limb)

RECURSIVE DivSmall(_, _, _)
\* x \div k, dividing from the most significant limb down; rem is the
\* remainder carried in from above
DivSmall(x, k, rem) ==
    IF x = <<>> THEN <<>>
    ELSE LET n == Len(x)
             t == rem * Limb + x[n]
         IN  DivSmall(SubSeq(x, 1, n - 1), k, t % k) \o <<t \div k>>

RECURSIVE AddLimbs(_, _, _)
AddLimbs(a, b, carry) ==
    IF a = <<>> THEN <<>>
    ELSE LET t == a[1] + b[1] + carry
         IN  <<t % Limb>> \o AddLimbs(Tail(a), Tail(b), t \div Limb)

RECURSIVE SubLimbs(_, _, _)
SubLimbs(a, b, borrow) ==
    IF a = <<>> THEN <<>>
    ELSE LET t == a[1] - b[1] - borrow
         IN  <<t % Limb>> \o SubLimbs(Tail(a), Tail(b), IF t < 0 THEN 1 ELSE 0)

\* SystemTime::UNIX_EPOCH on Windows: 116444736000000000 intervals of 100 ns
\* since 1601-01-01
UNIX_EPOCH == <<32768, 54590, 45534, 413>>

\* Duration::from_secs(11_644_473_600) in intervals of 100 ns
WINDOWS_EPOCH == <<32768, 54590, 45534, 413>>


----------------------------------------------------------------------------
(* The readers of ProcHandle, as functions of what the OS answers *)

\* a plausible slip: the null check is missing
ProcHandle_new_unchecked(handle) == Some(handle)

\* ProcHandle::new: OpenProcess answered `handle`
ProcHandle_new(handle) ==
    IF handle = NULL THEN None ELSE Some(handle)

\* Snapshot::new: CreateToolhelp32Snapshot answered `handle`
Snapshot_new(handle) ==
    IF handle = NULL THEN None ELSE Some(handle)

\* ProcHandle::hmodule: EnumProcessModulesEx answered a.hmodule (0: failed)
hmodule(a) ==
    IF a.hmodule = 0 THEN None ELSE Some(a.hmodule)

\* ProcHandle::executable: GetModuleFileNameExW answered a.res and filled a.buf
executable(a) ==
    IF hmodule(a) = None THEN None
    ELSE IF a.res = 0 THEN None
    ELSE Some(wstr_to_path(a.buf))

\* ProcHandle::get_peb32_addr: NtQueryInformationProcess(ProcessWow64Information)
\* answered a.wow64: "fail", or the address ("null" for a native target)
get_peb32_addr(a) ==
    IF a.wow64 = "fail" THEN None
    ELSE IF a.wow64 = "null" THEN None
    ELSE Some(a.wow64)

\* vec![0u16; size / 2]: the destination's length in u16 units
WcharBufLen(size) == size \div 2

\* the code units the destination holds after `bytes` were copied over it
\* (little-endian); bytes past its end land outside it
WcharBuf(size, bytes) ==
    [i \in 1 .. WcharBufLen(size) |->
        (IF 2 * i - 1 <= Len(bytes) THEN bytes[2 * i - 1] ELSE 0)
        + 256 * (IF 2 * i <= Len(bytes) THEN bytes[2 * i] ELSE 0)]

\* ProcHandle::read_process_wchar: ReadProcessMemory was asked for `size`
\* bytes and answered rpm.ok, copying rpm.bytes. requested/capacity are the
\* byte counts of the call and of the destination it was given.
read_process_wchar(size, rpm) ==
    [ret       |-> IF rpm.ok THEN Some(WcharBuf(size, rpm.bytes)) ELSE None,
     requested |-> size,
     capacity  |-> 2 * WcharBufLen(size)]

\* cmd_line_to_argv: CommandLineToArgvW answered argvp (none: a null pointer),
\* each argument a NUL-terminated wide string
cmd_line_to_argv(buf, argvp) ==
    IF argvp = None THEN <<>>
    ELSE [i \in DOMAIN argvp[1] |-> wstr_to_string(argvp[1][i])]

\* a plausible slip: a failed current-directory read leaves cwd empty but
\* keeps the command line that was read
ReadBuffers_keeps_argv(a) ==
    LET cmdline == read_process_wchar(a.cmdline.len, a.cmdline.rpm).ret
        cwd     == read_process_wchar(a.cwd.len, a.cwd.rpm).ret
    IN  IF cmdline = None THEN None
        ELSE Some([argv |-> cmd_line_to_argv(cmdline[1], a.argvp),
                   cwd  |-> IF cwd = None THEN Empty ELSE wstr_to_path(cwd[1])])

\* the tail both get_params_64 and get_params_32 share: the two buffer reads
ReadBuffers(a) ==
    LET cmdline == read_process_wchar(a.cmdline.len, a.cmdline.rpm).ret
        cwd     == read_process_wchar(a.cwd.len, a.cwd.rpm).ret
    IN  IF cmdline = None THEN None
        ELSE IF cwd = None THEN None
        ELSE Some([argv |-> cmd_line_to_argv(cmdline[1], a.argvp),
                   cwd  |-> wstr_to_path(cwd[1])])

get_params_64(a) ==
    IF ~a.basic_info THEN None
    ELSE IF ~a.peb THEN None
    ELSE IF ~a.proc_params THEN None
    ELSE ReadBuffers(a)

get_params_32(a, peb32) ==
    IF ~a.proc_params THEN None
    ELSE ReadBuffers(a)

get_params(a) ==
    LET peb32 == get_peb32_addr(a)
    IN  IF peb32 # None THEN get_params_32(a, peb32[1]) ELSE get_params_64(a)

\* (high << 32) | low, as four limbs
FileTimeTicks(ft) == ft.low \o ft.high

\* ProcHandle::start_time: GetProcessTimes answered a.res and the four
\* times. overflow_checks: the build panics on arithmetic overflow (debug)
\* instead of wrapping (release).
start_time(a, overflow_checks) ==
    IF a.res = 0 THEN [panic |-> FALSE, ret |-> None]
    ELSE LET start   == FileTimeTicks(a.creation)
             product == MulSmall(start, 100, 0)
             nanos   == SubSeq(product, 1, 4)
             dur     == DivSmall(nanos, 100, 0)
         IN  IF product[5] # 0 /\ overflow_checks
             THEN [panic |-> TRUE, ret |-> None]
             ELSE [panic |-> FALSE,
                   ret   |-> Some(SubLimbs(AddLimbs(UNIX_EPOCH, dur, 0),
                                           WINDOWS_EPOCH, 0))]

----------------------------------------------------------------------------
(* The operating system: what its calls may answer *)

\* PROCESSENTRY32W.szExeFile of a process: its image name, NUL padded
SzExeFile(pid) == <<97 + pid, 0, 0>>

Entry(pid, ppid) ==
    [th32ProcessID |-> pid, th32ParentProcessID |-> ppid,
     szExeFile |-> SzExeFile(pid)]

\* what a snapshot may hold: up to MaxProcs processes of distinct pids, each
\* with any parent pid (a live one, its own, or a dead one). The code
\* compares pids only for equality, so the k-th entry is given pid k: with
\* arbitrary parent pids every order of parents and children in the list
\* occurs (a child may precede or follow its parent), and pids 0 and above
\* the list's length are those of processes that are gone.
Snapshots ==
    UNION {{[i \in 1 .. n |-> Entry(i, ppid[i])] : ppid \in [1 .. n -> Pids]}
           : n \in 0 .. MaxProcs}

RECURSIVE HasAncestor(_, _, _, _)
\* does following parent pids from pid, for at most `steps` links, reach
\* `ancestor`?
HasAncestor(list, pid, ancestor, steps) ==
    /\ steps > 0
    /\ \E i \in DOMAIN list :
        /\ list[i].th32ProcessID = pid
        /\ \/ list[i].th32ParentProcessID = ancestor
           \/ HasAncestor(list, list[i].th32ParentProcessID, ancestor,
                          steps - 1)

\* a process whose parent links lead back to itself (a reused parent pid,
\* or the idle process, which is its own parent)
InLoop(list, pid) == HasAncestor(list, pid, pid, Len(list))

Acyclic(list) ==
    \A i \in DOMAIN list : ~InLoop(list, list[i].th32ProcessID)

\* CreateToolhelp32Snapshot: a fresh handle, or INVALID_HANDLE_VALUE when the
\* snapshot cannot be taken
CreateToolhelp32SnapshotAnswers(fresh) == {fresh, INVALID_HANDLE_VALUE}

\* OpenProcess: a fresh handle, or NULL when the process is gone or access
\* is denied
OpenProcessAnswers(fresh) == {fresh, NULL}

\* GetModuleFileNameExW's buffer for a process
ModuleFileName(pid) == <<67, 92, 97 + pid, 0, 0>>

ExecutableGood(pid) == [hmodule |-> 1, res |-> 3, buf |-> ModuleFileName(pid)]

ExecutableAnswers(pid, r) ==
    IF r
    THEN {ExecutableGood(pid),
          [hmodule |-> 0, res |-> 0, buf |-> <<0, 0, 0, 0, 0>>],
          [hmodule |-> 1, res |-> 0, buf |-> <<0, 0, 0, 0, 0>>]}
    ELSE {ExecutableGood(pid)}

\* a UNICODE_STRING of the target and what reading its buffer answers
BufferGood == [len |-> 2, rpm |-> [ok |-> TRUE, bytes |-> <<67, 0>>]]

BufferAnswers ==
    {BufferGood,
     [len |-> 2, rpm |-> [ok |-> FALSE, bytes |-> <<>>]],
     [len |-> 0, rpm |-> [ok |-> TRUE, bytes |-> <<>>]],
     [len |-> 0, rpm |-> [ok |-> FALSE, bytes |-> <<>>]]}

ArgvGood(pid) == Some(<<<<97 + pid, 0>>>>)

ParamsGood(pid) ==
    [wow64 |-> IF pid % 2 = 0 THEN "peb32" ELSE "null",
     basic_info |-> TRUE, peb |-> TRUE, proc_params |-> TRUE,
     cmdline |-> BufferGood, cwd |-> BufferGood, argvp |-> ArgvGood(pid)]

\* the chain stops at its first failing call, so an answer is either a full
\* set of good answers (any layout, any buffer lengths, any tokenizer
\* result) or good answers up to one failing call
ParamsAnswers(pid, r) ==
    IF r
    THEN [wow64 : {"fail", "null", "peb32"},
          basic_info : {TRUE}, peb : {TRUE}, proc_params : {TRUE},
          cmdline : {b \in BufferAnswers : b.rpm.ok},
          cwd : {b \in BufferAnswers : b.rpm.ok},
          argvp : {None, ArgvGood(pid)}]
         \cup
         {[ParamsGood(pid) EXCEPT !.wow64 = w, !.basic_info = ok[1],
              !.peb = ok[2], !.proc_params = ok[3],
              !.cmdline.rpm.ok = ok[4], !.cwd.rpm.ok = ok[5]] :
            w \in {"fail", "null", "peb32"},
            ok \in {<<FALSE, TRUE, TRUE, TRUE, TRUE>>,
                    <<TRUE, FALSE, TRUE, TRUE, TRUE>>,
                    <<TRUE, TRUE, FALSE, TRUE, TRUE>>,
                    <<TRUE, TRUE, TRUE, FALSE, TRUE>>,
                    <<TRUE, TRUE, TRUE, TRUE, FALSE>>}}
    ELSE {ParamsGood(pid)}

\* a FILETIME: two 32-bit halves, each as two limbs
FileTime(high, low) == [high |-> high, low |-> low]

ZeroTime == FileTime(<<0, 0>>, <<0, 0>>)

\* a creation time of the present day (2026)
CreationTime(pid) == FileTime(<<31409, 476>>, <<pid, 37505>>)

TimesGood(pid) ==
    [res |-> 1, creation |-> CreationTime(pid), exit |-> ZeroTime,
     kernel |-> FileTime(<<0, 0>>, <<pid, 7>>), user |-> ZeroTime]

TimesAnswers(pid, r) ==
    IF r
    THEN {TimesGood(pid),
          [res |-> 0, creation |-> ZeroTime, exit |-> ZeroTime,
           kernel |-> ZeroTime, user |-> ZeroTime]}
    ELSE {TimesGood(pid)}

\* SystemTime::now(): the clock, as intervals since 1601
Now(c) == <<c, 40000, 31409, 476>>

\* did a step of the parameter chain the code walks fail? (the narrow chain
\* has no basic-info query and no control-block read)
ChainFailed(a) ==
    \/ ~a.proc_params
    \/ ~a.cmdline.rpm.ok
    \/ ~a.cwd.rpm.ok
    \/ /\ a.wow64 # "peb32"
       /\ ~a.basic_info \/ ~a.peb

----------------------------------------------------------------------------
(* with_root_pid *)

\* one call on a handle, as the history records it
Call(api, h, arg) == [api |-> api, h |-> h, arg |-> arg]

\* build_proc's activation record on entry
NewFrame(info) ==
    [info |-> info, idx |-> 1, children |-> <<>>, phase |-> "scan",
     proc |-> None, executable |-> Empty, name |-> Empty,
     start_time |-> Empty, cwd |-> Empty, argv |-> Empty]

\* a plausible slip: only later-created (higher) pids count as children
IsChildOf_higher_only(kid, info) ==
    /\ kid.th32ParentProcessID = info.th32ProcessID
    /\ kid.th32ProcessID > info.th32ProcessID

\* the test of build_proc's loop: is kid a child of info?
IsChildOf(kid, info) ==
    kid.th32ParentProcessID = info.th32ProcessID

RECURSIVE NextKid(_, _, _)
\* the loop of build_proc: the next index from i on whose entry is a child
\* of info, 0 when the list is exhausted
NextKid(info, list, i) ==
    IF i > Len(list) THEN 0
    ELSE IF IsChildOf(list[i], info) THEN i
    ELSE NextKid(info, list, i + 1)

\* a plausible slip: the search stops one entry short of the end
FindPid_skips_last(list, pid, i) ==
    LET hits == {k \in i .. Len(list) - 1 : list[k].th32ProcessID = pid}
    IN  IF hits = {} THEN None
        ELSE Some(list[CHOOSE k \in hits : \A m \in hits : k <= m])

RECURSIVE FindPid(_, _, _)
\* procs.iter().find(|info| info.th32ProcessID == pid): the first match
FindPid(list, pid, i) ==
    IF i > Len(list) THEN None
    ELSE IF list[i].th32ProcessID = pid THEN Some(list[i])
    ELSE FindPid(list, pid, i + 1)

\* HashMap::insert
Insert(map, key, value) == (key :> value) @@ map

\* the LocalProcessInfo build_proc returns
NodeOf(f) ==
    [pid |-> f.info.th32ProcessID, ppid |-> f.info.th32ParentProcessID,
     name |-> f.name, executable |-> f.executable, cwd |-> f.cwd,
     argv |-> f.argv, start_time |-> f.start_time, status |-> "Run",
     children |-> f.children]

\* if let Some(exe) = proc.executable() { executable = exe; }
MergeExecutable(f, exe) ==
    [f EXCEPT !.executable = IF exe # None THEN exe[1] ELSE @]

\* a plausible slip: the parameters are taken only once the executable was
\* resolved (the if-lets nested instead of in sequence)
MergeParams_nested(f, params) ==
    IF params # None /\ f.executable # wstr_to_path(f.info.szExeFile)
    THEN [f EXCEPT !.cwd = params[1].cwd, !.argv = params[1].argv]
    ELSE f

\* if let Some(params) = proc.get_params() { cwd = ..; argv = ..; }
MergeParams(f, params) ==
    IF params # None
    THEN [f EXCEPT !.cwd = params[1].cwd, !.argv = params[1].argv]
    ELSE f

\* if let Some(start) = proc.start_time() { start_time = start; }
MergeStartTime(f, start) ==
    [f EXCEPT !.start_time = IF start # None THEN start[1] ELSE @]

Top == stack[Len(stack)]

SetTop(f) == [stack EXCEPT ![Len(stack)] = f]

Idle == u_pc = "idle" /\ u_in = <<>> /\ u_out = <<>>

Init ==
    /\ os_procs \in Snapshots
    /\ racy \in BOOLEAN
    /\ racy => Len(os_procs) <= MaxRacyProcs /\ Acyclic(os_procs)
    /\ root \in Pids
    /\ pc = "start"
    /\ snapshot = None
    /\ first = FALSE
    /\ cursor = 0
    /\ procs = <<>>
    /\ stack = <<>>
    /\ result = None
    /\ open = {}
    /\ next_handle = 1
    /\ clock = 0
    /\ oslog = <<>>
    /\ probe = <<>>
    /\ Idle

\* let snapshot = Snapshot::new()?;
SnapshotNew ==
    /\ pc = "start"
    /\ \E h \in CreateToolhelp32SnapshotAnswers(next_handle) :
        LET s == Snapshot_new(h)
        IN  /\ oslog' = Append(oslog, Call("CreateToolhelp32Snapshot", h, 0))
            /\ open' = IF h = next_handle THEN open \cup {h} ELSE open
            /\ next_handle' = IF h = next_handle THEN next_handle + 1
                              ELSE next_handle
            /\ snapshot' = s
            /\ IF s = None
               THEN pc' = "done" /\ first' = first
               ELSE pc' = "collect" /\ first' = TRUE
    /\ UNCHANGED <<os_procs, racy, root, cursor, procs, stack, result, clock,
                   probe, u_pc, u_in, u_out>>

\* ProcIter::next, driven by collect(): Process32FirstW / Process32NextW on
\* the snapshot's handle; a handle that is no open snapshot answers 0
IterNext ==
    /\ pc = "collect"
    /\ LET h    == snapshot[1]
           api  == IF first THEN "Process32FirstW" ELSE "Process32NextW"
           more == h \in open /\ cursor < Len(os_procs)
       IN  /\ oslog' = Append(oslog, Call(api, h, 0))
           /\ first' = FALSE
           /\ IF more
              THEN /\ procs' = Append(procs, os_procs[cursor + 1])
                   /\ cursor' = cursor + 1
                   /\ pc' = pc
              ELSE /\ pc' = "find"
                   /\ UNCHANGED <<procs, cursor>>
    /\ UNCHANGED <<os_procs, racy, root, snapshot, stack, result, open,
                   next_handle, clock, probe, u_pc, u_in, u_out>>

\* if let Some(info) = procs.iter().find(..) { Some(build_proc(..)) } else { None }
FindRoot ==
    /\ pc = "find"
    /\ LET info == FindPid(procs, root, 1)
       IN  IF info = None
           THEN pc' = "drop_snapshot" /\ stack' = stack
           ELSE pc' = "build" /\ stack' = <<NewFrame(info[1])>>
    /\ UNCHANGED <<os_procs, racy, root, snapshot, first, cursor, procs,
                   result, open, next_handle, clock, oslog, probe,
                   u_pc, u_in, u_out>>

\* for kid in procs { if kid.ppid == info.pid { .. build_proc(kid, procs) .. } }:
\* the loop runs on to its next child and calls build_proc for it
BuildCall ==
    /\ pc = "build"
    /\ Top.phase = "scan"
    /\ LET j == NextKid(Top.info, procs, Top.idx)
       IN  /\ j # 0
           /\ Len(stack) < MaxDepth
           /\ stack' = Append(SetTop([Top EXCEPT !.idx = j + 1]),
                              NewFrame(procs[j]))
    /\ UNCHANGED <<os_procs, racy, root, pc, snapshot, first, cursor, procs,
                   result, open, next_handle, clock, oslog, probe,
                   u_pc, u_in, u_out>>

\* the same call when the stack has no room left: the process dies
StackOverflow ==
    /\ pc = "build"
    /\ Top.phase = "scan"
    /\ NextKid(Top.info, procs, Top.idx) # 0
    /\ Len(stack) >= MaxDepth
    /\ pc' = "stack_overflow"
    /\ UNCHANGED <<os_procs, racy, root, snapshot, first, cursor, procs, stack,
                   result, open, next_handle, clock, oslog, probe,
                   u_pc, u_in, u_out>>

\* the loop is done: the locals are set up and ProcHandle::new is called
OpenProc ==
    /\ pc = "build"
    /\ Top.phase = "scan"
    /\ NextKid(Top.info, procs, Top.idx) = 0
    /\ \E h \in OpenProcessAnswers(next_handle) :
        LET pid  == Top.info.th32ProcessID
            exe  == wstr_to_path(Top.info.szExeFile)
            fn   == file_name(exe)
            proc == ProcHandle_new(h)
            f    == [Top EXCEPT
                       !.idx = Len(procs) + 1,
                       !.executable = exe,
                       !.name = IF fn # None THEN fn[1] ELSE Empty,
                       !.start_time = Now(clock),
                       !.cwd = Empty,
                       !.argv = Empty,
                       !.proc = proc,
                       !.phase = IF proc # None THEN "executable" ELSE "return"]
        IN  /\ stack' = SetTop(f)
            /\ oslog' = Append(oslog, Call("OpenProcess", h, pid))
            /\ open' = IF h = next_handle THEN open \cup {h} ELSE open
            /\ next_handle' = IF h = next_handle THEN next_handle + 1
                              ELSE next_handle
            /\ probe' = Insert(probe, pid,
                               [opened |-> proc # None, now |-> Now(clock),
                                executable |-> None, params |-> None,
                                chain_failed |-> FALSE, start_time |-> None])
    /\ clock' = clock + 1
    /\ UNCHANGED <<os_procs, racy, root, pc, snapshot, first, cursor, procs,
                   result, u_pc, u_in, u_out>>

\* if let Some(exe) = proc.executable() { executable = exe; }
ReadExecutable ==
    /\ pc = "build"
    /\ Top.phase = "executable"
    /\ LET pid == Top.info.th32ProcessID
       IN  \E a \in ExecutableAnswers(pid, racy) :
            LET exe == executable(a)
            IN  /\ stack' = SetTop([MergeExecutable(Top, exe) EXCEPT
                                        !.phase = "get_params"])
                /\ probe' = [probe EXCEPT ![pid].executable = exe]
    /\ oslog' = Append(oslog, Call("executable", Top.proc[1], 0))
    /\ UNCHANGED <<os_procs, racy, root, pc, snapshot, first, cursor, procs,
                   result, open, next_handle, clock, u_pc, u_in, u_out>>

\* if let Some(params) = proc.get_params() { cwd = params.cwd; argv = params.argv; }
ReadParams ==
    /\ pc = "build"
    /\ Top.phase = "get_params"
    /\ LET pid == Top.info.th32ProcessID
       IN  \E a \in ParamsAnswers(pid, racy) :
            LET params == get_params(a)
            IN  /\ stack' = SetTop([MergeParams(Top, params) EXCEPT
                                        !.phase = "start_time"])
                /\ probe' = [probe EXCEPT ![pid].params = params,
                                          ![pid].chain_failed = ChainFailed(a)]
    /\ oslog' = Append(oslog, Call("get_params", Top.proc[1], 0))
    /\ UNCHANGED <<os_procs, racy, root, pc, snapshot, first, cursor, procs,
                   result, open, next_handle, clock, u_pc, u_in, u_out>>

\* if let Some(start) = proc.start_time() { start_time = start; }
\* (the creation times explored here are of the present day, where the
\* tick count times 100 fits 64 bits under either overflow mode)
ReadStartTime ==
    /\ pc = "build"
    /\ Top.phase = "start_time"
    /\ LET pid == Top.info.th32ProcessID
       IN  \E a \in TimesAnswers(pid, racy) :
            LET start == start_time(a, TRUE)
            IN  /\ stack' = SetTop([MergeStartTime(Top, start.ret) EXCEPT
                                        !.phase = "drop"])
                /\ probe' = [probe EXCEPT ![pid].start_time = start.ret]
                /\ pc' = IF start.panic THEN "panicked" ELSE pc
    /\ oslog' = Append(oslog, Call("start_time", Top.proc[1], 0))
    /\ UNCHANGED <<os_procs, racy, root, snapshot, first, cursor, procs,
                   result, open, next_handle, clock, u_pc, u_in, u_out>>

\* a plausible slip: the handle is closed only when every reader answered
\* (an early return that skips the release)
DropProc_leaks_on_failure ==
    /\ pc = "build"
    /\ Top.phase = "drop"
    /\ LET h  == Top.proc[1]
           ok == LET p == probe[Top.info.th32ProcessID]
                 IN  p.executable # None /\ p.params # None
                     /\ p.start_time # None
       IN  /\ oslog' = IF ok THEN Append(oslog, Call("CloseHandle", h, 0))
                       ELSE oslog
           /\ open' = IF ok THEN open \ {h} ELSE open
    /\ stack' = SetTop([Top EXCEPT !.phase = "return"])
    /\ UNCHANGED <<os_procs, racy, root, pc, snapshot, first, cursor, procs,
                   result, next_handle, clock, probe, u_pc, u_in, u_out>>

\* the end of the if-let block: Drop for ProcHandle
DropProc ==
    /\ pc = "build"
    /\ Top.phase = "drop"
    /\ oslog' = Append(oslog, Call("CloseHandle", Top.proc[1], 0))
    /\ open' = open \ {Top.proc[1]}
    /\ stack' = SetTop([Top EXCEPT !.phase = "return"])
    /\ UNCHANGED <<os_procs, racy, root, pc, snapshot, first, cursor, procs,
                   result, next_handle, clock, probe, u_pc, u_in, u_out>>

\* build_proc returns its node: into the caller's children map, or as
\* with_root_pid's result
BuildReturn ==
    /\ pc = "build"
    /\ Top.phase = "return"
    /\ LET node == NodeOf(Top)
           rest == SubSeq(stack, 1, Len(stack) - 1)
       IN  IF rest = <<>>
           THEN /\ result' = Some(node)
                /\ stack' = rest
                /\ pc' = "drop_snapshot"
           ELSE /\ stack' = [rest EXCEPT ![Len(rest)].children =
                                Insert(@, node.pid, node)]
                /\ UNCHANGED <<result, pc>>
    /\ UNCHANGED <<os_procs, racy, root, snapshot, first, cursor, procs, open,
                   next_handle, clock, oslog, probe, u_pc, u_in, u_out>>

\* with_root_pid returns: Drop for Snapshot
DropSnapshot ==
    /\ pc = "drop_snapshot"
    /\ oslog' = Append(oslog, Call("CloseHandle", snapshot[1], 0))
    /\ open' = open \ {snapshot[1]}
    /\ pc' = "done"
    /\ UNCHANGED <<os_procs, racy, root, snapshot, first, cursor, procs, stack,
                   result, next_handle, clock, probe, u_pc, u_in, u_out>>

Next ==
    \/ SnapshotNew
    \/ IterNext
    \/ FindRoot
    \/ BuildCall
    \/ StackOverflow
    \/ OpenProc
    \/ ReadExecutable
    \/ ReadParams
    \/ ReadStartTime
    \/ DropProc
    \/ BuildReturn
    \/ DropSnapshot

Spec == Init /\ [][Next]_vars

----------------------------------------------------------------------------
(* ProcHandle::start_time and ProcHandle::read_process_wchar on their own,  *)
(* over wider inputs than the tree explores                                 *)

\* with_root_pid is not running
MainIdle ==
    /\ os_procs = <<>>
    /\ racy = FALSE
    /\ root = 0
    /\ pc = "idle"
    /\ snapshot = None
    /\ first = FALSE
    /\ cursor = 0
    /\ procs = <<>>
    /\ stack = <<>>
    /\ result = None
    /\ open = {}
    /\ next_handle = 1
    /\ clock = 0
    /\ oslog = <<>>
    /\ probe = <<>>

\* 32-bit halves GetProcessTimes may answer: the smallest and largest,
\* the present day, and the halves around 2^64 / 100
HighSamples ==
    {<<0, 0>>, <<1, 0>>, <<31409, 476>>, <<23592, 655>>, <<23593, 655>>,
     <<0, 32768>>, <<65535, 65535>>}

LowSamples ==
    {<<0, 0>>, <<1, 0>>, <<36700, 62914>>, <<36701, 62914>>,
     <<65535, 65535>>}

OtherTimeSamples == {ZeroTime, FileTime(<<65535, 65535>>, <<65535, 65535>>)}

TimesSamples ==
    {[res |-> res, creation |-> FileTime(high, low), exit |-> other,
      kernel |-> other, user |-> other] :
        res \in {0, 1}, high \in HighSamples, low \in LowSamples,
        other \in OtherTimeSamples}

StartTimeInit ==
    /\ MainIdle
    /\ u_pc = "call"
    /\ u_in \in [times : TimesSamples, overflow_checks : BOOLEAN]
    /\ u_out = <<>>

StartTimeCall ==
    /\ u_pc = "call"
    /\ u_out' = start_time(u_in.times, u_in.overflow_checks)
    /\ u_pc' = IF u_out'.panic THEN "panicked" ELSE "returned"
    /\ UNCHANGED <<os_procs, racy, root, pc, snapshot, first, cursor, procs,
                   stack, result, open, next_handle, clock, oslog, probe,
                   u_in>>

StartTimeNext == StartTimeCall

StartTimeSpec == StartTimeInit /\ [][StartTimeNext]_vars

\* the bytes of the target a read may copy
ByteSamples == {0, 65}

WcharInit ==
    /\ MainIdle
    /\ u_pc = "call"
    /\ \E size \in 0 .. MaxLen :
        u_in \in [size : {size},
                  rpm : [ok : BOOLEAN, bytes : [1 .. size -> ByteSamples]]]
    /\ u_out = <<>>

\* a copy longer than the destination writes past its end: the heap is
\* corrupted, and the call may return as if nothing happened or the process
\* may die of it
WcharCall ==
    /\ u_pc = "call"
    /\ u_out' = read_process_wchar(u_in.size, u_in.rpm)
    /\ u_pc' \in IF u_in.rpm.ok /\ u_out'.requested > u_out'.capacity
                 THEN {"returned", "crashed"}
                 ELSE {"returned"}
    /\ UNCHANGED <<os_procs, racy, root, pc, snapshot, first, cursor, procs,
                   stack, result, open, next_handle, clock, oslog, probe,
                   u_in>>

WcharNext == WcharCall

WcharSpec == WcharInit /\ [][WcharNext]_vars

----------------------------------------------------------------------------
(* What the claims speak of *)

RECURSIVE NodesOf(_)
\* every node of a tree
NodesOf(t) ==
    {t} \cup UNION {NodesOf(t.children[k]) : k \in DOMAIN t.children}

RECURSIVE Size(_)
RECURSIVE SizeOfKids(_, _)
\* the number of nodes of a tree, each counted where it hangs
Size(t) == 1 + SizeOfKids(t, DOMAIN t.children)
SizeOfKids(t, keys) ==
    IF keys = {} THEN 0
    ELSE LET k == CHOOSE x \in keys : TRUE
         IN  Size(t.children[k]) + SizeOfKids(t, keys \ {k})

Returned == pc = "done"

ReturnedTree == Returned /\ result # None

\* the nodes of the returned tree; none before the return
ResultNodes == IF ReturnedTree THEN NodesOf(result[1]) ELSE {}

ListPids(list) == {list[i].th32ProcessID : i \in DOMAIN list}

\* the pids of the entries of the list whose parent pid is pid
ChildPids(list, pid) ==
    {list[i].th32ProcessID :
        i \in {k \in DOMAIN list : list[k].th32ParentProcessID = pid}}

\* the entry of the list with this pid (pids are distinct in a snapshot)
EntryOf(list, pid) ==
    list[CHOOSE i \in DOMAIN list : list[i].th32ProcessID = pid]

\* the activations whose readers are done with the parameters
PastParams == {i \in DOMAIN stack : stack[i].phase \in {"start_time", "drop", "return"}}

ReaderApis == {"executable", "get_params", "start_time"}

\* the handles the OS handed out, from the history
Acquired ==
    {oslog[k].h : k \in {i \in DOMAIN oslog :
        /\ oslog[i].api \in {"CreateToolhelp32Snapshot", "OpenProcess"}
        /\ oslog[i].h \notin {NULL, INVALID_HANDLE_VALUE}}}

ProcessHandles ==
    {oslog[k].h : k \in {i \in DOMAIN oslog :
        oslog[i].api = "OpenProcess" /\ oslog[i].h # NULL}}

Closes(h) ==
    {k \in DOMAIN oslog : oslog[k].api = "CloseHandle" /\ oslog[k].h = h}

SnapshotFailed ==
    /\ oslog # <<>>
    /\ oslog[1].api = "CreateToolhelp32Snapshot"
    /\ oslog[1].h = INVALID_HANDLE_VALUE

----------------------------------------------------------------------------
(* C1: with_root_pid returns nothing exactly when no entry of the collected *)
(* list has the root pid, and a node it returns has the root pid.           *)
C1_NothingIffRootAbsent ==
    /\ Returned => (result = None <=> root \notin ListPids(procs))
    /\ ReturnedTree => result[1].pid = root
    /\ pc = "stack_overflow" => root \in ListPids(procs)

\* the root is found behind two other entries
C1_Witness ==
    /\ ReturnedTree
    /\ Len(procs) = 3
    /\ procs[3].th32ProcessID = root

(* C2: in the returned tree the keys of every node's children map are       *)
(* exactly the pids of the entries whose parent pid is the node's pid, each *)
(* key holding the node of that pid, whatever the order of the list; the    *)
(* same holds of every activation whose loop has ended.                     *)
C2_ChildrenExact ==
    /\ \A n \in ResultNodes :
        /\ DOMAIN n.children = ChildPids(procs, n.pid)
        /\ \A k \in DOMAIN n.children : n.children[k].pid = k
    /\ pc = "build" =>
        \A i \in DOMAIN stack :
            stack[i].phase # "scan" =>
                DOMAIN stack[i].children
                    = ChildPids(procs, stack[i].info.th32ProcessID)

\* a root with two children, one listed before it and one after it
C2_Witness ==
    /\ ReturnedTree
    /\ Cardinality(DOMAIN result[1].children) = 2
    /\ Len(procs) = 3
    /\ procs[2].th32ProcessID = root

(* C3: build_proc ends for every list, loops of parent links included, and  *)
(* its tree is finite and acyclic: no pid is under construction twice, the  *)
(* stack never overflows, and the returned tree holds each pid once, each   *)
(* the pid of an entry.                                                     *)
C3_FiniteAcyclicTree ==
    /\ pc # "stack_overflow"
    /\ \A i, j \in DOMAIN stack :
        i # j => stack[i].info.th32ProcessID # stack[j].info.th32ProcessID
    /\ ReturnedTree =>
        /\ Size(result[1]) = Cardinality({n.pid : n \in ResultNodes})
        /\ {n.pid : n \in ResultNodes} \subseteq ListPids(procs)

(* C4: a node whose parameter chain failed at some step has an empty argv   *)
(* and an empty cwd, in the returned tree and in every activation past the  *)
(* parameter read.                                                          *)
C4_FailedChainLeavesBothEmpty ==
    /\ \A n \in ResultNodes :
        probe[n.pid].chain_failed => n.argv = Empty /\ n.cwd = Empty
    /\ pc = "build" =>
        \A i \in PastParams :
            probe[stack[i].info.th32ProcessID].chain_failed =>
                stack[i].argv = Empty /\ stack[i].cwd = Empty

\* a returned node whose handle was opened and whose executable was
\* resolved, but whose parameter chain failed
C4_Witness ==
    \E n \in ResultNodes :
        /\ probe[n.pid].opened
        /\ probe[n.pid].chain_failed
        /\ probe[n.pid].executable # None
        /\ probe[n.pid].start_time # None

(* C5: in the returned tree, a node whose handle was opened has each field  *)
(* decided by its own reader alone: executable is the resolved path or else *)
(* the raw enumerated name, (cwd, argv) are the values read or else empty,  *)
(* start_time is the value read or else the time taken at introspection.    *)
C5_FieldsDefaultIndependently ==
    \A n \in ResultNodes :
        LET p   == probe[n.pid]
            raw == wstr_to_path(EntryOf(procs, n.pid).szExeFile)
        IN  p.opened =>
              /\ n.executable = IF p.executable # None THEN p.executable[1]
                                ELSE raw
              /\ n.cwd = IF p.params # None THEN p.params[1].cwd ELSE Empty
              /\ n.argv = IF p.params # None THEN p.params[1].argv ELSE Empty
              /\ n.start_time = IF p.start_time # None THEN p.start_time[1]
                                ELSE p.now

\* one returned node lost only its executable, another only its parameters
\* and its start time
C5_Witness ==
    \E n, m \in ResultNodes :
        /\ probe[n.pid].opened /\ probe[m.pid].opened
        /\ probe[n.pid].executable = None
        /\ probe[n.pid].params # None /\ probe[n.pid].params[1].argv # Empty
        /\ probe[n.pid].start_time # None
        /\ probe[m.pid].executable # None
        /\ probe[m.pid].params = None
        /\ probe[m.pid].start_time = None

(* C6: a process whose handle could not be opened still gets its node: pid, *)
(* ppid and name from its entry, executable the raw name, cwd and argv      *)
(* empty, start_time the time taken at introspection, status Run, its       *)
(* children built; no reader is called for it, and a root that is listed    *)
(* is returned.                                                             *)
C6_UnopenedNodeDefaults ==
    /\ \A n \in ResultNodes :
        LET e   == EntryOf(procs, n.pid)
            raw == wstr_to_path(e.szExeFile)
        IN  ~probe[n.pid].opened =>
              /\ n.pid = e.th32ProcessID
              /\ n.ppid = e.th32ParentProcessID
              /\ n.name = (IF file_name(raw) # None THEN file_name(raw)[1]
                           ELSE Empty)
              /\ n.executable = raw
              /\ n.cwd = Empty
              /\ n.argv = Empty
              /\ n.start_time = probe[n.pid].now
              /\ n.status = "Run"
              /\ DOMAIN n.children = ChildPids(procs, n.pid)
    /\ \A k \in DOMAIN oslog :
        /\ oslog[k].api \in ReaderApis \cup {"CloseHandle"} => oslog[k].h # NULL
        /\ oslog[k].api = "OpenProcess" /\ oslog[k].h = NULL /\ k < Len(oslog)
              => oslog[k + 1].api \notin ReaderApis
    /\ Returned /\ root \in ListPids(procs) => result # None

\* a returned root that could not be opened, over a child that could
C6_Witness ==
    /\ ReturnedTree
    /\ ~probe[root].opened
    /\ \E k \in DOMAIN result[1].children : probe[k].opened

(* C7: when the snapshot cannot be taken, with_root_pid returns nothing     *)
(* and makes no further call: no enumeration, no OpenProcess, no            *)
(* CloseHandle of a handle it never acquired; and it returns nothing only   *)
(* then or when the root is not listed.                                     *)
C7_SnapshotFailureAborts ==
    /\ SnapshotFailed =>
        /\ Returned => result = None
        /\ \A k \in DOMAIN oslog :
              k > 1 => oslog[k].api \notin
                  {"Process32FirstW", "Process32NextW", "OpenProcess",
                   "CloseHandle"}
    /\ Returned /\ result = None =>
        SnapshotFailed \/ root \notin ListPids(os_procs)

(* C8: every handle the OS handed out is closed at most once, never used    *)
(* after its close, and closed exactly once by the time with_root_pid       *)
(* returns, when none is left open; at most one process handle is open at   *)
(* a time, and only the innermost activation holds one, so a node's handle  *)
(* is opened after its descendants are built and their handles closed.      *)
C8_HandlesScoped ==
    /\ \A h \in Acquired :
        /\ Cardinality(Closes(h)) <= 1
        /\ h \in open <=> Closes(h) = {}
        /\ \A k \in Closes(h) :
              \A m \in DOMAIN oslog : m > k => oslog[m].h # h
        /\ Returned => Cardinality(Closes(h)) = 1
    /\ open \subseteq Acquired
    /\ Cardinality(open \cap ProcessHandles) <= 1
    /\ \A i \in DOMAIN stack :
        /\ i < Len(stack) => stack[i].phase = "scan" /\ stack[i].proc = None
        /\ stack[i].proc # None /\ stack[i].proc[1] \in open =>
              stack[i].children
                  = [k \in ChildPids(procs, stack[i].info.th32ProcessID) |->
                        stack[i].children[k]]
    /\ Returned => open = {}

\* a parent and its child both had their handles opened and closed, the
\* child's with a reader failing, and with_root_pid has returned
C8_Witness ==
    /\ ReturnedTree
    /\ Cardinality(ProcessHandles) = 2
    /\ \E k \in DOMAIN result[1].children :
        /\ probe[k].opened
        /\ probe[k].params = None
        /\ probe[k].start_time = None
    /\ probe[root].opened

(* C9: for every pair of halves of a successful GetProcessTimes, start_time *)
(* returns Unix epoch + (high * 2^32 + low) * 100 ns - 11,644,473,600 s,    *)
(* the product by 100 fitting 64 bits, whatever the other three times.      *)
C9_StartTimeExact ==
    u_pc # "call" /\ u_in.times.res # 0 =>
        LET ticks == FileTimeTicks(u_in.times.creation)
            nanos == MulSmall(ticks, 100, 0)
        IN  /\ u_pc = "returned"
            /\ nanos[5] = 0
            /\ u_out.ret = Some(SubLimbs(AddLimbs(UNIX_EPOCH,
                                    DivSmall(SubSeq(nanos, 1, 4), 100, 0), 0),
                                         WINDOWS_EPOCH, 0))
            /\ u_out.ret = Some(ticks)

(* C10: read_process_wchar asks for exactly the reported byte length, the   *)
(* destination it hands to a copy that takes place holds at least that many *)
(* bytes, so the copy ends within it and the call returns; the buffer       *)
(* returned has exactly the reported length, and a failed read returns      *)
(* nothing.                                                                 *)
C10_ReadWithinBuffer ==
    u_pc # "call" =>
        /\ u_out.requested = u_in.size
        /\ u_in.rpm.ok => u_out.capacity >= u_out.requested
        /\ u_pc = "returned"
        /\ u_out.ret # None => 2 * Len(u_out.ret[1]) = u_in.size
        /\ ~u_in.rpm.ok => u_out.ret = None

============================================================================
